---- MODULE Spec2Model ----
(***************************************************************************)
(* pytimetk/utils/pandas_helpers.py: glimpse (both engines),               *)
(* flatten_multiindex_column_names and update_dict.                        *)
(*                                                                         *)
(* Text is a sequence of one-character strings, so that len(), ljust(),    *)
(* slicing and concatenation are computed as Python computes them.         *)
(* Standard output is the character stream of the latest call, line breaks *)
(* included.                                                               *)
(***************************************************************************)
EXTENDS Integers, Sequences, FiniteSets, TLC

VARIABLES
    data,      \* the caller's table object (or a non-table argument)
    d1, d2,    \* the caller's two dictionary objects
    call,      \* the latest call: operation and argument values at entry
    stdout,    \* characters written to standard output by the latest call
    raised,    \* the exception the latest call ended with, or "None"
    ret        \* what the latest call returned: [ref, val]

vars == <<data, d1, d2, call, stdout, raised, ret>>

(* ------------------------------ bounds -------------------------------- *)

MaxCols == 2
MaxRows == 2
MaxWidth == 30
NumKeys == 3

(* ------------------------- Python text helpers ------------------------ *)

Min2(a, b) == IF a <= b THEN a ELSE b
Max2(a, b) == IF a >= b THEN a ELSE b

RECURSIVE SeqMax(_)
SeqMax(s) == IF Len(s) = 1 THEN s[1] ELSE Max2(s[1], SeqMax(Tail(s)))

Spaces(n) == [i \in 1..n |-> " "]

\* str.ljust(w, ' ')
ljust(s, w) == IF Len(s) >= w THEN s ELSE s \o Spaces(w - Len(s))

\* s[0:stop], s[:stop]: a negative stop counts from the end
Slice(s, stop) ==
    IF stop >= 0 THEN SubSeq(s, 1, Min2(stop, Len(s)))
    ELSE SubSeq(s, 1, Max2(0, Len(s) + stop))

Digits == <<"0", "1", "2", "3", "4", "5", "6", "7", "8", "9">>

RECURSIVE IntToStr(_)
IntToStr(n) ==
    IF n < 10 THEN <<Digits[n + 1]>>
    ELSE IntToStr(n \div 10) \o <<Digits[(n % 10) + 1]>>

\* sep.join(parts)
RECURSIVE Join(_, _)
Join(parts, sep) ==
    IF parts = <<>> THEN <<>>
    ELSE IF Len(parts) = 1 THEN parts[1]
    ELSE parts[1] \o sep \o Join(Tail(parts), sep)

IsSpace(c) == c \in {" ", "\t", "\n"}

\* str.strip()
RECURSIVE LStrip(_)
LStrip(s) == IF s # <<>> /\ IsSpace(s[1]) THEN LStrip(Tail(s)) ELSE s
RECURSIVE RStrip(_)
RStrip(s) ==
    IF s # <<>> /\ IsSpace(s[Len(s)]) THEN RStrip(SubSeq(s, 1, Len(s) - 1)) ELSE s
Strip(s) == RStrip(LStrip(s))

\* repr() of a cell value
Repr(v) == IF v.t = "int" THEN IntToStr(v.n) ELSE <<"'">> \o v.s \o <<"'">>

MapRepr(vals) == [i \in 1..Len(vals) |-> Repr(vals[i])]

\* str(list): "[v1, v2]"
ListStr(vals) == <<"[">> \o Join(MapRepr(vals), <<",", " ">>) \o <<"]">>

\* str(numpy array): "[v1 v2]"
ArrayStr(vals) == <<"[">> \o Join(MapRepr(vals), <<" ">>) \o <<"]">>

\* print(x) and print(x, end="")
print_line(x) == x \o <<"\n">>
print_noend(x) == x

\* the lines of a character stream
RECURSIVE SplitLines(_)
SplitLines(s) ==
    IF s = <<>> THEN <<>>
    ELSE LET nl == {i \in 1..Len(s) : s[i] = "\n"} IN
         IF nl = {} THEN <<s>>
         ELSE LET k == CHOOSE i \in nl : \A j \in nl : i <= j IN
              <<SubSeq(s, 1, k - 1)>> \o SplitLines(SubSeq(s, k + 1, Len(s)))

IsPrefix(p, s) == Len(p) <= Len(s) /\ SubSeq(s, 1, Len(p)) = p
IsSuffix(p, s) == Len(p) <= Len(s) /\ SubSeq(s, Len(s) - Len(p) + 1, Len(s)) = p

(* ------------------------------ tables -------------------------------- *)

Int64 == <<"i", "n", "t", "6", "4">>
Object == <<"o", "b", "j", "e", "c", "t">>
Ellipsis4 == <<" ", ".", ".", ".">>
Ellipsis3 == <<".", ".", ".">>
ClassDataFrame ==
    <<"<", "c", "l", "a", "s", "s", " ", "'", "p", "a", "n", "d", "a", "s", ".",
      "c", "o", "r", "e", ".", "f", "r", "a", "m", "e", ".", "D", "a", "t", "a",
      "F", "r", "a", "m", "e", "'", ">">>

\* column names: a string, a tuple of strings, or an integer
StrName(s) == [kind |-> "str", parts |-> <<s>>]
TupleName(p) == [kind |-> "tuple", parts |-> p]
IntName(n) == [kind |-> "int", parts |-> <<IntToStr(n)>>]

IntVal(i) == [t |-> "int", n |-> i, s |-> <<>>]
StrVal(s) == [t |-> "str", n |-> 0, s |-> s]

\* the cells of a column of a given dtype: row i holds i, or the string 'r<i>'
ColVals(dtype, nrows) ==
    [i \in 1..nrows |-> IF dtype = Int64 THEN IntVal(i)
                        ELSE StrVal(<<"r">> \o IntToStr(i))]

Column(name, dtype, nrows) ==
    [name |-> name, dtype |-> dtype, vals |-> ColVals(dtype, nrows)]

\* sequences of n distinct names drawn from a set
NameSeqs(names, n) ==
    {s \in [1..n -> names] : \A i, j \in 1..n : i # j => s[i] # s[j]}

Table(ns, ds, r) ==
    [kind |-> "DataFrame", nrows |-> r,
     cols |-> [i \in 1..Len(ns) |-> Column(ns[i], ds[i], r)]]

Tables(names) ==
    UNION {{Table(ns, ds, r) :
                ns \in NameSeqs(names, n), ds \in [1..n -> {Int64, Object}],
                r \in 0..MaxRows} : n \in 0..MaxCols}

NotATable == [kind |-> "int", nrows |-> 0, cols |-> <<>>]

\* pytimetk.utils.checks.check_dataframe_or_groupby: TRUE when it returns,
\* FALSE when it raises
check_dataframe_or_groupby(x) == x.kind \in {"DataFrame", "DataFrameGroupBy"}

(* ------------------------------ glimpse ------------------------------- *)

\* len(col) for a column label
HasLen(name) == name.kind # "int"
NameLen(name) == IF name.kind = "str" THEN Len(name.parts[1]) ELSE Len(name.parts)

\* f"{_column}" for a string label
NameText(name) == name.parts[1]

\* df.head(n).to_list() for n > 0
head(vals, n) == SubSeq(vals, 1, Min2(n, Len(vals)))

\* len(max(df.columns, key=len)), for a non-empty list of labels with a len()
_max_len(cols) == SeqMax([i \in 1..Len(cols) |-> NameLen(cols[i].name)])

_max_dtype_label_len == 15

\* variant: the two dimensions of df.shape taken in the wrong order
header_pandas_swapped(df) ==
    ClassDataFrame \o <<":", " ">> \o IntToStr(Len(df.cols))
    \o <<" ", "r", "o", "w", "s", " ", "o", "f", " ">> \o IntToStr(df.nrows)
    \o <<" ", "c", "o", "l", "u", "m", "n", "s">>

\* f"{type(df)}: {df.shape[0]} rows of {df.shape[1]} columns"
header_pandas(df) ==
    ClassDataFrame \o <<":", " ">> \o IntToStr(df.nrows)
    \o <<" ", "r", "o", "w", "s", " ", "o", "f", " ">> \o IntToStr(Len(df.cols))
    \o <<" ", "c", "o", "l", "u", "m", "n", "s">>

output_col(c, maxlen) == ljust(NameText(c.name) \o <<":">>, maxlen + 1)

output_dtype(c) == ljust(<<" ">> \o c.dtype, _max_dtype_label_len + 3)

output_combined(c, maxlen, max_width) ==
    output_col(c, maxlen) \o <<" ">> \o output_dtype(c) \o <<" ">>
    \o ListStr(head(c.vals, max_width))

\* trim the output if too long
trim(line, max_width) ==
    IF Len(line) > max_width THEN Slice(line, max_width - 4) \o Ellipsis4
    ELSE line

RECURSIVE print_columns(_, _, _)
print_columns(cols, maxlen, max_width) ==
    IF cols = <<>> THEN <<>>
    ELSE print_line(trim(output_combined(cols[1], maxlen, max_width), max_width))
         \o print_columns(Tail(cols), maxlen, max_width)

\* what a call leaves behind: the output, the exception, the caller's table
Outcome(out, exc, tbl) == [out |-> out, exc |-> exc, data |-> tbl]

ValueErrorEmptyMax == "ValueError: max() arg is an empty sequence"
TypeErrorNoLen == "TypeError: object of type 'int' has no len()"
ValueErrorEngine == "ValueError: Invalid engine. Use 'pandas' or 'polars'."
InvalidInputKind == "TypeError: InvalidInputKind"

\* max(df.columns, key=len): the exception it ends with, or "None"
max_len_error(cols) ==
    IF cols = <<>> THEN ValueErrorEmptyMax
    ELSE IF \E i \in 1..Len(cols) : ~HasLen(cols[i].name) THEN TypeErrorNoLen
    ELSE "None"

\* variant: no data.copy(), and the preview cut df.head(max_width) made in place
_glimpse_pandas_inplace(tbl, max_width) ==
    LET cut == [tbl EXCEPT
                  !.nrows = Min2(max_width, tbl.nrows),
                  !.cols = [i \in 1..Len(tbl.cols) |->
                      [tbl.cols[i] EXCEPT !.vals = head(tbl.cols[i].vals, max_width)]]]
    IN  IF max_len_error(tbl.cols) # "None"
        THEN Outcome(<<>>, max_len_error(tbl.cols), tbl)
        ELSE Outcome(print_line(header_pandas(tbl))
                     \o print_columns(tbl.cols, _max_len(tbl.cols), max_width),
                     "None", cut)

_glimpse_pandas(tbl, max_width) ==
    LET df == tbl  \* data.copy(): a new object with the same content
    IN  IF max_len_error(df.cols) # "None"
        THEN Outcome(<<>>, max_len_error(df.cols), tbl)
        ELSE Outcome(print_line(header_pandas(df))
                     \o print_columns(df.cols, _max_len(df.cols), max_width),
                     "None", tbl)

(* polars engine *)

PolarsHead == 15
PreviewOffset == 15

\* f"{type(df)}: {len(df)} rows of {len(df.columns)} columns"
header_polars(df) ==
    ClassDataFrame \o <<":", " ">> \o IntToStr(df.nrows)
    \o <<" ", "r", "o", "w", "s", " ", "o", "f", " ">> \o IntToStr(Len(df.cols))
    \o <<" ", "c", "o", "l", "u", "m", "n", "s">>

\* str() of one imploded cell of first values; its form is the library's:
\* a Python list ("[1, 2]") or an array ("[1 2]")
cell_text(c, style) ==
    IF style = "list" THEN ListStr(head(c.vals, PolarsHead))
    ELSE ArrayStr(head(c.vals, PolarsHead))

\* final_df['  '].astype(str).str.slice(stop=...) + '...'
preview_cell(c, stop, style) == Slice(cell_text(c, style), stop) \o Ellipsis3

\* final_df: one row <<name, dtype, preview>> per column of df
final_df(df, max_width, style) ==
    [i \in 1..Len(df.cols) |->
        <<NameText(df.cols[i].name), df.cols[i].dtype,
          preview_cell(df.cols[i], max_width - _max_len(df.cols) - PreviewOffset,
                       style)>>]

\* the labels of final_df's three columns: '', ' ' and '  '
final_labels == <<<<>>, <<" ">>, <<" ", " ">>>>

\* make_lalign_formatter: '{:<N}'.format with N the longest cell of the column
lalign_width(rows, j) == SeqMax([i \in 1..Len(rows) |-> Len(rows[i][j])])
lalign(rows) ==
    [i \in 1..Len(rows) |-> [j \in 1..3 |-> ljust(rows[i][j], lalign_width(rows, j))]]

\* DataFrame.to_string(formatters, index=False, justify='left'): the row of
\* column labels, then one row per record, every column padded to its widest
\* entry and columns set one space apart; rows joined by line breaks
to_string_width(rows, j) == Max2(Len(final_labels[j]), lalign_width(rows, j))
to_string_row(cells, rows) ==
    ljust(cells[1], to_string_width(rows, 1)) \o <<" ">>
    \o ljust(cells[2], to_string_width(rows, 2)) \o <<" ">>
    \o ljust(cells[3], to_string_width(rows, 3))
to_string(rows) ==
    Join(<<to_string_row(final_labels, rows)>>
         \o [i \in 1..Len(rows) |-> to_string_row(lalign(rows)[i], rows)],
         <<"\n">>)

_glimpse_polars(df, max_width, style) ==
    IF max_len_error(df.cols) # "None"
    THEN Outcome(<<>>, max_len_error(df.cols), df)
    ELSE Outcome(print_noend(header_polars(df))
                 \o print_line(to_string(final_df(df, max_width, style))),
                 "None", df)

\* variant: an unrecognized engine falls through to the default engine
glimpse_default_engine(tbl, max_width, engine, style) ==
    IF ~check_dataframe_or_groupby(tbl) THEN Outcome(<<>>, InvalidInputKind, tbl)
    ELSE IF engine = "polars" THEN _glimpse_polars(tbl, max_width, style)
    ELSE _glimpse_pandas(tbl, max_width)

glimpse(tbl, max_width, engine, style) ==
    IF ~check_dataframe_or_groupby(tbl) THEN Outcome(<<>>, InvalidInputKind, tbl)
    ELSE IF engine = "pandas" THEN _glimpse_pandas(tbl, max_width)
    ELSE IF engine = "polars" THEN _glimpse_polars(tbl, max_width, style)
    ELSE Outcome(<<>>, ValueErrorEngine, tbl)

(* ------------------- flatten_multiindex_column_names ------------------ *)

\* variant: the separator argument ignored, the default '_' always used
flat_name_default_sep(col, sep) ==
    IF col.kind = "tuple" THEN StrName(Strip(Join(col.parts, <<"_">>))) ELSE col

\* sep.join(col).strip() if isinstance(col, tuple) else col
flat_name(col, sep) ==
    IF col.kind = "tuple" THEN StrName(Strip(Join(col.parts, sep))) ELSE col

\* data.columns = [...]: the table with its labels replaced, cells untouched
set_columns(tbl, sep) ==
    [tbl EXCEPT !.cols =
        [i \in 1..Len(tbl.cols) |->
            [tbl.cols[i] EXCEPT !.name = flat_name(tbl.cols[i].name, sep)]]]

\* the exception, the caller's table after the call, and the returned object
flatten_multiindex_column_names(tbl, sep) ==
    IF ~check_dataframe_or_groupby(tbl)
    THEN [exc |-> InvalidInputKind, data |-> tbl,
          ret |-> [ref |-> "None", val |-> tbl]]
    ELSE [exc |-> "None", data |-> set_columns(tbl, sep),
          ret |-> [ref |-> "data", val |-> set_columns(tbl, sep)]]

(* ----------------------------- update_dict ----------------------------- *)

\* for key in d1.keys(): if key in d2: d1[key] = d2[key]
\* heap holds the two dictionary objects; x and y name the objects passed
RECURSIVE update_loop(_, _, _, _)
update_loop(keys, heap, x, y) ==
    IF keys = {} THEN heap
    ELSE LET key == CHOOSE k \in keys : \A j \in keys : k <= j IN
         update_loop(keys \ {key},
                     IF key \in DOMAIN heap[y]
                     THEN [heap EXCEPT ![x] = [heap[x] EXCEPT ![key] = heap[y][key]]]
                     ELSE heap,
                     x, y)

\* variant: d1.update(d2), which also adds the keys only d2 has
update_dict_merge(heap, x, y) ==
    LET m == [k \in DOMAIN heap[x] \cup DOMAIN heap[y] |->
                 IF k \in DOMAIN heap[y] THEN heap[y][k] ELSE heap[x][k]]
        h == [heap EXCEPT ![x] = m]
    IN  [heap |-> h, ret |-> [ref |-> x, val |-> h[x]]]

\* the heap after the call and the returned object
update_dict(heap, x, y) ==
    LET h == update_loop(DOMAIN heap[x], heap, x, y) IN
    [heap |-> h, ret |-> [ref |-> x, val |-> h[x]]]

(* ----------------------------- the calls ------------------------------ *)

EmptyDict == [k \in {} |-> 0]
NoTable == [kind |-> "none", nrows |-> 0, cols |-> <<>>]
NoCall ==
    [op |-> "none", data_in |-> NoTable, max_width |-> 0, engine |-> "",
     sep |-> <<>>, d1_in |-> EmptyDict, d2_in |-> EmptyDict, a |-> "", b |-> ""]
ReturnedNone == [ref |-> "None", val |-> NoTable]

Engines == {"pandas", "polars", "bogus"}
CellStyles == {"list", "array"}

GlimpseNames == {StrName(<<"a">>), StrName(<<"b", "b">>), IntName(7)}

\* data.glimpse(max_width, engine)
Glimpse ==
    \E max_width \in 1..MaxWidth, engine \in Engines, style \in CellStyles :
        LET o == glimpse(data, max_width, engine, style) IN
        /\ call.op = "none"
        /\ call' = [NoCall EXCEPT !.op = "glimpse", !.data_in = data,
                                  !.max_width = max_width, !.engine = engine]
        /\ stdout' = o.out
        /\ raised' = o.exc
        /\ data' = o.data
        /\ ret' = ReturnedNone
        /\ UNCHANGED <<d1, d2>>

FlattenNames ==
    {StrName(<<"d">>), TupleName(<<<<"v">>, <<"a">>>>),
     TupleName(<<<<"v">>, <<"b", " ">>>>), TupleName(<<<<"m">>, <<>>>>)}
Seps == {<<"_">>, <<" ">>, <<>>}

\* data.flatten_multiindex_column_names(sep)
Flatten ==
    \E sep \in Seps :
        LET o == flatten_multiindex_column_names(data, sep) IN
        /\ call.op = "none"
        /\ call' = [NoCall EXCEPT !.op = "flatten", !.data_in = data, !.sep = sep]
        /\ stdout' = <<>>
        /\ raised' = o.exc
        /\ data' = o.data
        /\ ret' = o.ret
        /\ UNCHANGED <<d1, d2>>

Keys == 1..NumKeys
DictVals == {0, 1}
Dicts == UNION {[ks -> DictVals] : ks \in SUBSET Keys}
DictRefs == {"d1", "d2"}

\* update_dict(a, b), each argument one of the caller's two dictionaries
UpdateDict ==
    \E a \in DictRefs, b \in DictRefs :
        LET o == update_dict([d1 |-> d1, d2 |-> d2], a, b) IN
        /\ call.op = "none"
        /\ call' = [NoCall EXCEPT !.op = "update_dict", !.d1_in = d1,
                                  !.d2_in = d2, !.a = a, !.b = b]
        /\ d1' = o.heap.d1
        /\ d2' = o.heap.d2
        /\ ret' = o.ret
        /\ raised' = "None"
        /\ UNCHANGED <<data, stdout>>

Init ==
    /\ data \in Tables(GlimpseNames) \cup {NotATable}
    /\ d1 = EmptyDict /\ d2 = EmptyDict
    /\ call = NoCall
    /\ stdout = <<>>
    /\ raised = "None"
    /\ ret = ReturnedNone

\* the caller takes the result and is ready for its next call
NextCall ==
    /\ call.op # "none"
    /\ call' = NoCall
    /\ stdout' = <<>>
    /\ raised' = "None"
    /\ ret' = ReturnedNone
    /\ UNCHANGED <<data, d1, d2>>

Next == Glimpse \/ NextCall

Spec == Init /\ [][Next]_vars

InitFlatten ==
    /\ data \in Tables(FlattenNames) \cup {NotATable}
    /\ d1 = EmptyDict /\ d2 = EmptyDict
    /\ call = NoCall
    /\ stdout = <<>>
    /\ raised = "None"
    /\ ret = ReturnedNone

NextFlatten == Flatten \/ NextCall

SpecFlatten == InitFlatten /\ [][NextFlatten]_vars

InitDict ==
    /\ data = NoTable
    /\ d1 \in Dicts /\ d2 \in Dicts
    /\ call = NoCall
    /\ stdout = <<>>
    /\ raised = "None"
    /\ ret = ReturnedNone

NextDict == UpdateDict \/ NextCall

SpecDict == InitDict /\ [][NextDict]_vars

(* ------------------------------ properties ----------------------------- *)

GlimpseCalled == call.op = "glimpse"
FlattenCalled == call.op = "flatten"
UpdateDictCalled == call.op = "update_dict"

IsDataFrame(t) == t.kind = "DataFrame"
StringNames(t) == \A i \in 1..Len(t.cols) : t.cols[i].name.kind = "str"
RecognizedEngine == call.engine \in {"pandas", "polars"}
OutLines == SplitLines(stdout)
ColumnCount(t) == Len(t.cols)
AllSpaces(s) == \A i \in 1..Len(s) : s[i] = " "

\* "<container-kind>: R rows of C columns" for the actual dimensions of t
ExpectedHeader(t) ==
    ClassDataFrame \o <<":", " ">> \o IntToStr(t.nrows)
    \o <<" ", "r", "o", "w", "s", " ", "o", "f", " ">> \o IntToStr(ColumnCount(t))
    \o <<" ", "c", "o", "l", "u", "m", "n", "s">>

\* C1: for every valid table (string column names), every max_width >= 1 and
\* both recognized engines, one call to glimpse writes exactly
\* 1 + column_count lines.
C1_LineCount ==
    (GlimpseCalled /\ IsDataFrame(call.data_in) /\ StringNames(call.data_in)
     /\ RecognizedEngine)
    => Len(OutLines) = 1 + ColumnCount(call.data_in)

\* the line of column i of the default engine before it is trimmed
UntrimmedLine(t, i, max_width) ==
    output_combined(t.cols[i], _max_len(t.cols), max_width)

\* C2: for every valid table, every max_width >= 1 and both engines, no
\* per-column line is longer than max_width characters; in the default engine
\* a line whose untruncated form is longer than max_width is written with
\* exactly max_width characters and ends with " ...".
C2_WidthBound ==
    (GlimpseCalled /\ IsDataFrame(call.data_in) /\ StringNames(call.data_in)
     /\ RecognizedEngine /\ raised = "None")
    => \A i \in 1..ColumnCount(call.data_in) :
          /\ i + 1 <= Len(OutLines)
          /\ Len(OutLines[i + 1]) <= call.max_width
          /\ (call.engine = "pandas"
              /\ Len(UntrimmedLine(call.data_in, i, call.max_width)) > call.max_width)
             => /\ Len(OutLines[i + 1]) = call.max_width
                /\ IsSuffix(Ellipsis4, OutLines[i + 1])

\* C3: glimpse on a valid table with an unrecognized engine ends with the
\* invalid-engine ValueError, and nothing, not even the header, has been
\* written to standard output.
C3_UnknownEngineRaisesFirst ==
    (GlimpseCalled /\ IsDataFrame(call.data_in) /\ ~RecognizedEngine)
    => (raised = ValueErrorEngine /\ stdout = <<>>)

C3_Witness ==
    /\ GlimpseCalled /\ IsDataFrame(call.data_in) /\ call.engine = "bogus"
    /\ ColumnCount(call.data_in) = 2 /\ StringNames(call.data_in)
    /\ raised = ValueErrorEngine

C5_NeverFails ==
    (GlimpseCalled /\ check_dataframe_or_groupby(call.data_in) /\ RecognizedEngine)
    => (raised = "None" /\ stdout # <<>>
        /\ Len(OutLines) = 1 + ColumnCount(call.data_in))

\* C6: after any call to glimpse (either engine, any max_width, normal return
\* or exception) the input table is what it was before the call: column
\* names, column order, column types and all cell values.
C6_InputUnchanged == GlimpseCalled => data = call.data_in

C6_Witness ==
    /\ GlimpseCalled /\ call.engine = "pandas" /\ raised = "None"
    /\ call.data_in.nrows = 2 /\ call.max_width = 1
    /\ ColumnCount(call.data_in) = 2 /\ Len(OutLines) = 3

(* flatten_multiindex_column_names *)

SameCells(t, u) ==
    /\ u.kind = t.kind /\ u.nrows = t.nrows /\ Len(u.cols) = Len(t.cols)
    /\ \A i \in 1..Len(t.cols) :
          u.cols[i].dtype = t.cols[i].dtype /\ u.cols[i].vals = t.cols[i].vals

HasTupleName(t) == \E i \in 1..Len(t.cols) : t.cols[i].name.kind = "tuple"

\* C7 as stated: the i-th returned name is the parts of the i-th input name
\* joined with sep when that name is a tuple, and the input name itself
\* otherwise; number and order of columns are preserved; with no tuple name
\* the result equals the input table.
C7_JoinedNames ==
    (FlattenCalled /\ raised = "None")
    => /\ SameCells(call.data_in, ret.val)
       /\ \A i \in 1..Len(call.data_in.cols) :
             ret.val.cols[i].name =
                 IF call.data_in.cols[i].name.kind = "tuple"
                 THEN StrName(Join(call.data_in.cols[i].name.parts, call.sep))
                 ELSE call.data_in.cols[i].name
       /\ (~HasTupleName(call.data_in) => ret.val = call.data_in)

\* C7 amended: as C7, except that a tuple name becomes its parts joined with
\* sep with leading and trailing whitespace then removed from the joined
\* string.
C7_JoinedStrippedNames ==
    (FlattenCalled /\ raised = "None")
    => /\ SameCells(call.data_in, ret.val)
       /\ \A i \in 1..Len(call.data_in.cols) :
             ret.val.cols[i].name =
                 IF call.data_in.cols[i].name.kind = "tuple"
                 THEN StrName(Strip(Join(call.data_in.cols[i].name.parts, call.sep)))
                 ELSE call.data_in.cols[i].name
       /\ (~HasTupleName(call.data_in) => ret.val = call.data_in)

C7_Witness ==
    /\ FlattenCalled /\ raised = "None" /\ call.sep = <<" ">>
    /\ Len(call.data_in.cols) = 2
    /\ call.data_in.cols[1].name = TupleName(<<<<"v">>, <<"b", " ">>>>)
    /\ call.data_in.cols[2].name = StrName(<<"d">>)
    /\ ret.val.cols[1].name = StrName(<<"v", " ", "b">>)
    /\ ret.val.cols[2].name = StrName(<<"d">>)

\* C8: after a call on a table with at least one tuple column name, the
\* caller's input table still has its original (tuple) column names.
C8_InputKeepsNames ==
    (FlattenCalled /\ raised = "None" /\ HasTupleName(call.data_in))
    => data = call.data_in

(* update_dict *)

DictIn(r) == IF r = "d1" THEN call.d1_in ELSE call.d2_in
DictNow(r) == IF r = "d1" THEN d1 ELSE d2

\* C9: after update_dict(x, y) the key set of x is its key set before the
\* call, every key of x that is also in y maps to y's value, every other key
\* of x keeps its value, y is unchanged, and the returned dictionary is x.
C9_UpdateExistingKeysOnly ==
    UpdateDictCalled
    => /\ DOMAIN DictNow(call.a) = DOMAIN DictIn(call.a)
       /\ \A k \in DOMAIN DictIn(call.a) :
             DictNow(call.a)[k] =
                 IF k \in DOMAIN DictIn(call.b) THEN DictIn(call.b)[k]
                 ELSE DictIn(call.a)[k]
       /\ DictNow(call.b) = DictIn(call.b)
       /\ ret.ref = call.a
       /\ ret.val = DictNow(call.a)

C9_Witness ==
    /\ UpdateDictCalled /\ call.a = "d1" /\ call.b = "d2"
    /\ DOMAIN call.d1_in = {1, 2} /\ DOMAIN call.d2_in = {2, 3}
    /\ call.d1_in[2] # call.d2_in[2]
    /\ d1[2] = call.d2_in[2] /\ d1[1] = call.d1_in[1]

(* default engine, line by line *)

\* the first n characters of s (none when n <= 0)
FirstChars(s, n) == SubSeq(s, 1, Min2(Max2(n, 0), Len(s)))

NameWidth(t) == SeqMax([i \in 1..Len(t.cols) |-> Len(t.cols[i].name.parts[1])])

FirstValues(vals, n) == SubSeq(vals, 1, Min2(n, Len(vals)))

ClaimedLine(t, i, max_width) ==
    LET name_field == ljust(t.cols[i].name.parts[1] \o <<":">>, NameWidth(t) + 1)
        type_field == ljust(<<" ">> \o t.cols[i].dtype, 18)
        values_field == ListStr(FirstValues(t.cols[i].vals, max_width))
        line == name_field \o <<" ">> \o type_field \o <<" ">> \o values_field
    IN  IF Len(line) <= max_width THEN line
        ELSE FirstChars(line, max_width - 4) \o Ellipsis4

\* C10: in the default engine the per-column lines come in column order and
\* each is name_field + " " + type_field + " " + values_field, left as is when
\* no longer than max_width and otherwise replaced by its first max_width - 4
\* characters followed by " ...".
C10_DefaultEngineLines ==
    (GlimpseCalled /\ call.engine = "pandas" /\ raised = "None")
    => /\ Len(OutLines) = 1 + ColumnCount(call.data_in)
       /\ \A i \in 1..ColumnCount(call.data_in) :
             OutLines[i + 1] = ClaimedLine(call.data_in, i, call.max_width)

====
